---- MODULE Spec2Model ----
(***************************************************************************)
(* The notebook "Simulating Noise in Terra, Aqua, and Qiskit Chemistry     *)
(* with Aer" as a state machine.  One action per statement of the code     *)
(* cells, in notebook order.  The state is the kernel's namespace (ns, and *)
(* bound, the names bound so far), the packages installed, the execution   *)
(* requests handed to the simulator (executed) and to VQE (vqe_runs), the  *)
(* value the noiseless cell displays, and the position of the run.         *)
(***************************************************************************)
EXTENDS Integers, Sequences, FiniteSets, TLC

\* Bounds of the model.
Shots == 2              \* shots of one execute call (the library's default in the notebook)
MaxCalibration == 2     \* distinct calibration snapshots the device may report
MaxSpinElectrons == 2   \* num_alpha, num_beta of the molecule the driver returns
MaxOrbitals == 2        \* num_orbitals of the molecule the driver returns

\* Program constants.
RegisterSize == 3       \* QuantumRegister(3), ClassicalRegister(3)
LastStmt == 58          \* print(result), the last statement of the last code cell

VARIABLES pc, status, error, trace, bound, ns, installed, executed, displayed, vqe_runs

vars == <<pc, status, error, trace, bound, ns, installed, executed, displayed, vqe_runs>>

(***************************************************************************)
(* Pure helpers: bits, gates, measurement, counts.                         *)
(***************************************************************************)
RECURSIVE Pow2(_)
Pow2(n) == IF n = 0 THEN 1 ELSE 2 * Pow2(n - 1)

Bit(b, q) == (b \div Pow2(q)) % 2

FlipBit(b, q) == IF Bit(b, q) = 1 THEN b - Pow2(q) ELSE b + Pow2(q)

ClearBit(b, q) == IF Bit(b, q) = 1 THEN b - Pow2(q) ELSE b

Basis == 0 .. (Pow2(RegisterSize) - 1)

\* |0...0>, amplitudes kept as integers (the 1/sqrt(2) factors are dropped:
\* only which amplitudes are non-zero decides what a shot can measure).
ZeroState == [b \in Basis |-> IF b = 0 THEN 1 ELSE 0]

\* circuit.h(q): Hadamard on qubit q.
h(psi, q) ==
    [b \in Basis |-> psi[ClearBit(b, q)]
                     + (IF Bit(b, q) = 1 THEN -1 ELSE 1) * psi[ClearBit(b, q) + Pow2(q)]]

\* Mutant of cx: control and target exchanged.
cx_swapped(psi, c, t) ==
    [b \in Basis |-> IF Bit(b, t) = 1 THEN psi[FlipBit(b, c)] ELSE psi[b]]

\* circuit.cx(c, t): controlled-X, control c, target t.
cx(psi, c, t) ==
    [b \in Basis |-> IF Bit(b, c) = 1 THEN psi[FlipBit(b, t)] ELSE psi[b]]

\* One instruction of the circuit's data.
Instr(name, qargs, cargs) == [name |-> name, qargs |-> qargs, cargs |-> cargs]

Apply(psi, ins) ==
    IF ins.name = "h" THEN h(psi, ins.qargs[1])
    ELSE IF ins.name = "cx" THEN cx(psi, ins.qargs[1], ins.qargs[2])
    ELSE psi

RECURSIVE Evolve(_, _)
Evolve(psi, data) ==
    IF data = <<>> THEN psi ELSE Evolve(Apply(psi, Head(data)), Tail(data))

\* The basis states a noiseless shot of the circuit can collapse to.
Support(data) == {b \in Basis : Evolve(ZeroState, data)[b] # 0}

\* The value of the classical register once the qubits have collapsed to
\* basis state b: each measure instruction copies its qubit into its clbit.
RECURSIVE Measure(_, _)
Measure(data, b) ==
    IF data = <<>> THEN 0
    ELSE LET ins == data[Len(data)]
             before == Measure(SubSeq(data, 1, Len(data) - 1), b)
         IN  IF ins.name = "measure"
             THEN ClearBit(before, ins.cargs[1]) + Bit(b, ins.qargs[1]) * Pow2(ins.cargs[1])
             ELSE before

\* What one noiseless shot can leave in the classical register.
IdealOutcomes(circ) == {Measure(circ.data, b) : b \in Support(circ.data)}

RECURSIVE XorBits(_, _, _)
XorBits(b, e, n) ==
    IF n = 0 THEN 0
    ELSE XorBits(b, e, n - 1) + ((Bit(b, n - 1) + Bit(e, n - 1)) % 2) * Pow2(n - 1)

\* What one noisy shot can leave there: gate and readout errors may flip
\* any subset e of the bits.
NoisyOutcomes(circ) ==
    {XorBits(Measure(circ.data, b), e, circ.cregs) :
        b \in Support(circ.data), e \in 0 .. (Pow2(circ.cregs) - 1)}

\* Mutant of Tally: an outcome seen again is not counted again.
Tally_once(memory) == [x \in {memory[i] : i \in DOMAIN memory} |-> 1]

\* The simulator's tally of the shots' outcomes.
RECURSIVE Tally(_)
Tally(memory) ==
    IF memory = <<>> THEN [k \in {} |-> 0]
    ELSE LET rest == Tally(Tail(memory))
             k == Head(memory)
         IN  [x \in (DOMAIN rest) \cup {k} |->
                 IF x = k THEN (IF k \in DOMAIN rest THEN rest[k] + 1 ELSE 1)
                 ELSE rest[x]]

\* Every result a run of `shots` shots can return, each shot drawn from outcomes.
Results(outcomes, shots) == {Tally(m) : m \in [1 .. shots -> outcomes]}

BitChar(x) == IF x = 1 THEN "1" ELSE "0"

\* The key of an outcome in the counts: classical bits, highest index first.
RECURSIVE BitString(_, _)
BitString(v, n) ==
    IF n = 0 THEN "" ELSE BitChar(Bit(v, n - 1)) \o BitString(v, n - 1)

\* Result.get_counts(): the tally keyed by bit strings.
get_counts(counts, nbits) ==
    [s \in {BitString(v, nbits) : v \in DOMAIN counts} |->
        counts[CHOOSE v \in DOMAIN counts : BitString(v, nbits) = s]]

RECURSIVE SumOver(_, _)
SumOver(f, keys) ==
    IF keys = {} THEN 0
    ELSE LET k == CHOOSE x \in keys : TRUE
         IN  f[k] + SumOver(f, keys \ {k})

Total(counts) == SumOver(counts, DOMAIN counts)

(***************************************************************************)
(* The kernel: namespace, statements, exceptions.                          *)
(***************************************************************************)
NoProperties == [backend_name |-> "", calibration |-> 0]

NoCouplingMap == [backend_name |-> ""]

NoNoiseModel == [properties |-> NoProperties, basis_gates |-> {}]

NoCircuit == [qregs |-> 0, cregs |-> 0, data |-> <<>>]

NoCounts == [k \in {} |-> 0]

NoDriver == [atom |-> <<>>, unit |-> "", charge |-> 0, spin |-> 0, basis |-> ""]

NoMolecule == [atoms |-> <<>>, num_alpha |-> 0, num_beta |-> 0, num_orbitals |-> 0]

NoOperator == [num_qubits |-> 0, mapping |-> "", reduced_with |-> {}]

NoState == [num_qubits |-> 0, num_orbitals |-> 0, num_particles |-> 0]

NoVarForm == [name |-> "", num_qubits |-> 0, initial_state |-> NoState]

NoAlgorithm == [operator |-> NoOperator, var_form |-> NoVarForm, optimizer |-> ""]

NoInstance == [backend |-> "", noise_model |-> {}]

\* The namespace before any cell has run: every field holds a placeholder
\* of its type, and `bound` says which names exist.
EmptyNamespace ==
    [device |-> "", properties |-> NoProperties, coupling_map |-> NoCouplingMap,
     noise_model |-> NoNoiseModel, qr |-> 0, cr |-> 0, circuit |-> NoCircuit,
     simulator |-> "", basis_gates |-> {}, result_noise |-> NoCounts,
     counts_noise |-> NoCounts, driver |-> NoDriver, molecule |-> NoMolecule,
     num_particles |-> 0, num_spin_orbitals |-> 0, ferOp |-> 0, map_type |-> "",
     qubitOp |-> NoOperator, num_qubits |-> 0, optimizer |-> "",
     init_state |-> NoState, var_form |-> NoVarForm, algorithm |-> NoAlgorithm,
     quantum_instance |-> NoInstance, result |-> ""]

\* Modules of the standard library need no install.
StdLib == {"logging", "collections"}

\* The section of the notebook a statement belongs to.
Phase(k) ==
    IF k <= 8 THEN 1 ELSE IF k <= 14 THEN 2 ELSE IF k <= 16 THEN 3
    ELSE IF k <= 31 THEN 4 ELSE 5

Init ==
    /\ pc = 1
    /\ status = "running"
    /\ error = ""
    /\ trace = <<>>
    /\ bound = {}
    /\ ns = EmptyNamespace
    /\ installed = {}
    /\ executed = <<>>
    /\ displayed = NoCounts
    /\ vqe_runs = <<>>

\* An exception nobody catches: the run stops at the statement that raised.
Raise(e) ==
    /\ status' = "raised"
    /\ error' = e
    /\ pc' = pc
    /\ UNCHANGED <<bound, ns, installed, executed, displayed, vqe_runs>>

\* Mutant of Done: the run does not move on, and the statement runs again.
Done_rerun(k, writes) ==
    /\ pc' = k
    /\ bound' = bound \cup writes
    /\ status' = "running"
    /\ error' = error

\* Statement k completed and bound the names in writes.
Done(k, writes) ==
    /\ pc' = k + 1
    /\ bound' = bound \cup writes
    /\ status' = IF k = LastStmt THEN "done" ELSE "running"
    /\ error' = error

\* Mutant of At: a statement is entered whatever the status of the run, so
\* a call that raised is made again.
At_retry(k) == pc = k

\* The run has reached statement k.
At(k) == pc = k /\ status = "running"

\* Statement k runs: a name it reads that is not bound is a NameError,
\* otherwise eff is what it does.
Stmt(k, reads, eff) ==
    /\ trace' = Append(trace, k)
    /\ IF reads \subseteq bound THEN eff ELSE Raise("NameError")

\* A statement that only rebinds the namespace.
Assign(k, writes, newns) ==
    /\ ns' = newns
    /\ UNCHANGED <<installed, executed, displayed, vqe_runs>>
    /\ Done(k, writes)

\* A call into an external library that binds nothing new may still raise.
Call(k) ==
    \/ /\ UNCHANGED <<ns, installed, executed, displayed, vqe_runs>>
       /\ Done(k, {})
    \/ Raise("LibraryError")

\* "!pip install": a shell escape, which raises nothing whether or not the
\* install succeeds.
PipInstall(k, package) ==
    Stmt(k, {},
         /\ \E ok \in BOOLEAN : installed' = IF ok THEN installed \cup {package} ELSE installed
         /\ UNCHANGED <<ns, executed, displayed, vqe_runs>>
         /\ Done(k, {}))

\* "from package import names".
Import(k, package, names) ==
    Stmt(k, {},
         IF package \in installed \cup StdLib
         THEN /\ UNCHANGED <<ns, installed, executed, displayed, vqe_runs>>
              /\ Done(k, names)
         ELSE Raise("ModuleNotFoundError"))

(***************************************************************************)
(* Install and import cells.                                               *)
(***************************************************************************)
pip_install_qiskit ==
    /\ At(1)
    /\ PipInstall(1, "qiskit")

pip_install_qiskit_aqua ==
    /\ At(2)
    /\ PipInstall(2, "qiskit_aqua")

pip_install_qiskit_chemistry ==
    /\ At(3)
    /\ PipInstall(3, "qiskit_chemistry")

pip_install_pyscf ==
    /\ At(4)
    /\ PipInstall(4, "pyscf")

import_Aer_IBMQ_execute ==
    /\ At(5)
    /\ Import(5, "qiskit", {"Aer", "IBMQ", "execute"})

import_noise ==
    /\ At(6)
    /\ Import(6, "qiskit", {"noise"})

import_QuantumCircuit ==
    /\ At(7)
    /\ Import(7, "qiskit", {"QuantumCircuit", "QuantumRegister", "ClassicalRegister"})

import_job_monitor ==
    /\ At(8)
    /\ Import(8, "qiskit", {"job_monitor"})

(***************************************************************************)
(* Creating a noise model based on a real device.                          *)
(***************************************************************************)
IBMQ_load_accounts ==
    /\ At(9)
    /\ Stmt(9, {"IBMQ"}, Call(9))

print_available_backends ==
    /\ At(10)
    /\ Stmt(10, {}, Assign(10, {}, ns))

IBMQ_backends ==
    /\ At(11)
    /\ Stmt(11, {"IBMQ"}, Call(11))

device_get_backend ==
    /\ At(12)
    /\ Stmt(12, {"IBMQ"},
         \/ Assign(12, {"device"}, [ns EXCEPT !.device = "ibmq_poughkeepsie"])
         \/ Raise("LibraryError"))

\* The calibration data is whatever the device reports when it is asked.
device_properties ==
    /\ At(13)
    /\ Stmt(13, {"device"},
         \/ \E c \in 1 .. MaxCalibration :
               Assign(13, {"properties"},
                      [ns EXCEPT !.properties = [backend_name |-> ns.device, calibration |-> c]])
         \/ Raise("LibraryError"))

\* device.configuration().coupling_map: the map is the device's own, kept
\* as the name of the device it belongs to.
device_coupling_map ==
    /\ At(14)
    /\ Stmt(14, {"device"},
         \/ Assign(14, {"coupling_map"},
                   [ns EXCEPT !.coupling_map = [backend_name |-> ns.device]])
         \/ Raise("LibraryError"))

import_noise_again ==
    /\ At(15)
    /\ Import(15, "qiskit", {"noise"})

\* noise.device.basic_device_noise_model(properties)
basic_device_noise_model(properties) ==
    [properties |-> properties, basis_gates |-> {"u1", "u2", "u3", "cx"}]

\* Mutant of build_noise_model: the result is bound to a misspelt name.
build_noise_model_misspelt ==
    /\ At(16)
    /\ Stmt(16, {"noise", "properties"},
         \/ Assign(16, {"noise_modle"},
                   [ns EXCEPT !.noise_model = basic_device_noise_model(ns.properties)])
         \/ Raise("LibraryError"))

build_noise_model ==
    /\ At(16)
    /\ Stmt(16, {"noise", "properties"},
         \/ Assign(16, {"noise_model"},
                   [ns EXCEPT !.noise_model = basic_device_noise_model(ns.properties)])
         \/ Raise("LibraryError"))

(***************************************************************************)
(* Running a circuit with noise in Aer through Terra.                      *)
(***************************************************************************)
qr_QuantumRegister ==
    /\ At(17)
    /\ Stmt(17, {"QuantumRegister"},
         \/ Assign(17, {"qr"}, [ns EXCEPT !.qr = RegisterSize])
         \/ Raise("LibraryError"))

cr_ClassicalRegister ==
    /\ At(18)
    /\ Stmt(18, {"ClassicalRegister"},
         \/ Assign(18, {"cr"}, [ns EXCEPT !.cr = RegisterSize])
         \/ Raise("LibraryError"))

circuit_QuantumCircuit ==
    /\ At(19)
    /\ Stmt(19, {"QuantumCircuit", "qr", "cr"},
         \/ Assign(19, {"circuit"},
                   [ns EXCEPT !.circuit = [qregs |-> ns.qr, cregs |-> ns.cr, data |-> <<>>]])
         \/ Raise("LibraryError"))

\* circuit.<gate>(...): the instruction is appended to the circuit's data.
Append_instr(n, ins) == [n EXCEPT !.circuit.data = Append(n.circuit.data, ins)]

\* circuit.measure(qr, cr): one measure per qubit of the register, qubit i
\* into classical bit i.
measure_all(size) == [i \in 1 .. size |-> Instr("measure", <<i - 1>>, <<i - 1>>)]

circuit_h ==
    /\ At(20)
    /\ Stmt(20, {"circuit", "qr"},
         \/ Assign(20, {}, Append_instr(ns, Instr("h", <<0>>, <<>>)))
         \/ Raise("LibraryError"))

circuit_cx_0_1 ==
    /\ At(21)
    /\ Stmt(21, {"circuit", "qr"},
         \/ Assign(21, {}, Append_instr(ns, Instr("cx", <<0, 1>>, <<>>)))
         \/ Raise("LibraryError"))

circuit_cx_1_2 ==
    /\ At(22)
    /\ Stmt(22, {"circuit", "qr"},
         \/ Assign(22, {}, Append_instr(ns, Instr("cx", <<1, 2>>, <<>>)))
         \/ Raise("LibraryError"))

circuit_barrier ==
    /\ At(23)
    /\ Stmt(23, {"circuit"},
         \/ Assign(23, {}, Append_instr(ns, Instr("barrier", [i \in 1 .. ns.circuit.qregs |-> i - 1], <<>>)))
         \/ Raise("LibraryError"))

circuit_measure ==
    /\ At(24)
    /\ Stmt(24, {"circuit", "qr", "cr"},
         \/ Assign(24, {}, [ns EXCEPT !.circuit.data = ns.circuit.data \o measure_all(ns.qr)])
         \/ Raise("LibraryError"))

circuit_draw ==
    /\ At(25)
    /\ Stmt(25, {"circuit"}, Call(25))

\* Mutant of simulator_get_backend: another Aer backend is picked.
simulator_statevector ==
    /\ At(26)
    /\ Stmt(26, {"Aer"},
         \/ Assign(26, {"simulator"}, [ns EXCEPT !.simulator = "statevector_simulator"])
         \/ Raise("LibraryError"))

simulator_get_backend ==
    /\ At(26)
    /\ Stmt(26, {"Aer"},
         \/ Assign(26, {"simulator"}, [ns EXCEPT !.simulator = "qasm_simulator"])
         \/ Raise("LibraryError"))

\* Mutant of Request: the coupling map is left out of the request.
Request_no_coupling_map(circ, backend, noise_model, coupling_map, basis_gates) ==
    [circuit |-> circ, backend |-> backend, noise_model |-> noise_model,
     coupling_map |-> {}, basis_gates |-> basis_gates, shots |-> Shots]

\* The request an execute(...) call hands to the backend; a keyword that
\* is not passed is the empty set.
Request(circ, backend, noise_model, coupling_map, basis_gates) ==
    [circuit |-> circ, backend |-> backend, noise_model |-> noise_model,
     coupling_map |-> coupling_map, basis_gates |-> basis_gates, shots |-> Shots]

\* execute(circuit, simulator).result().get_counts()
execute_noiseless ==
    /\ At(27)
    /\ Stmt(27, {"execute", "circuit", "simulator"},
         \/ /\ executed' = Append(executed, Request(ns.circuit, ns.simulator, {}, {}, {}))
            /\ \E r \in Results(IdealOutcomes(ns.circuit), Shots) :
                  displayed' = get_counts(r, ns.circuit.cregs)
            /\ UNCHANGED <<ns, installed, vqe_runs>>
            /\ Done(27, {})
         \/ Raise("LibraryError"))

basis_gates_of_noise_model ==
    /\ At(28)
    /\ Stmt(28, {"noise_model"},
            Assign(28, {"basis_gates"}, [ns EXCEPT !.basis_gates = ns.noise_model.basis_gates]))

\* result_noise = execute(circuit, simulator, noise_model=noise_model,
\*                        coupling_map=coupling_map, basis_gates=basis_gates).result()
execute_noise ==
    /\ At(29)
    /\ Stmt(29, {"execute", "circuit", "simulator", "noise_model", "coupling_map", "basis_gates"},
         \/ /\ executed' = Append(executed,
                                  Request(ns.circuit, ns.simulator, {ns.noise_model},
                                          {ns.coupling_map}, {ns.basis_gates}))
            /\ \E r \in Results(NoisyOutcomes(ns.circuit), Shots) :
                  ns' = [ns EXCEPT !.result_noise = r]
            /\ UNCHANGED <<installed, displayed, vqe_runs>>
            /\ Done(29, {"result_noise"})
         \/ Raise("LibraryError"))

counts_noise_get_counts ==
    /\ At(30)
    /\ Stmt(30, {"result_noise", "circuit"},
         \/ Assign(30, {"counts_noise"},
                   [ns EXCEPT !.counts_noise = get_counts(ns.result_noise, ns.circuit.cregs)])
         \/ Raise("LibraryError"))

print_counts_noise ==
    /\ At(31)
    /\ Stmt(31, {"counts_noise"}, Assign(31, {}, ns))

(***************************************************************************)
(* Running Aqua and Chemistry calculations with noise.                     *)
(***************************************************************************)
import_logging ==
    /\ At(32)
    /\ Import(32, "logging", {"logging"})

import_set_aqua_logging ==
    /\ At(33)
    /\ Import(33, "qiskit_aqua",
              {"set_logging_config", "build_logging_config", "set_aqua_logging"})

set_aqua_logging ==
    /\ At(34)
    /\ Stmt(34, {"set_aqua_logging", "logging"}, Call(34))

import_OrderedDict ==
    /\ At(35)
    /\ Import(35, "collections", {"OrderedDict"})

import_FermionicOperator ==
    /\ At(36)
    /\ Import(36, "qiskit_chemistry", {"FermionicOperator"})

import_PySCFDriver ==
    /\ At(37)
    /\ Import(37, "qiskit_chemistry", {"PySCFDriver", "UnitsType"})

\* One atom of the geometry string: its symbol and its coordinates, in
\* thousandths of the unit.
Atom(symbol, x, y, z) == [symbol |-> symbol, xyz |-> <<x, y, z>>]

\* atom='H .0 .0 .0; H .0 .0 0.735'
Geometry == <<Atom("H", 0, 0, 0), Atom("H", 0, 0, 735)>>

\* PySCFDriver(atom=..., unit=UnitsType.ANGSTROM, charge=0, spin=0, basis='sto3g');
\* the driver needs the pyscf package.
driver_PySCFDriver ==
    /\ At(38)
    /\ Stmt(38, {"PySCFDriver", "UnitsType"},
            IF "pyscf" \in installed
            THEN \/ Assign(38, {"driver"},
                           [ns EXCEPT !.driver = [atom |-> Geometry, unit |-> "ANGSTROM",
                                                  charge |-> 0, spin |-> 0, basis |-> "sto3g"]])
                 \/ Raise("LibraryError")
            ELSE Raise("LibraryError"))

\* The molecule is made of the atoms of the driver's geometry.
Symbols(atom) == [i \in 1 .. Len(atom) |-> atom[i].symbol]

\* molecule = driver.run(): the electron and orbital numbers are the
\* chemistry package's to compute.
molecule_driver_run ==
    /\ At(39)
    /\ Stmt(39, {"driver"},
         \/ \E a \in 1 .. MaxSpinElectrons, b \in 1 .. MaxSpinElectrons, o \in 1 .. MaxOrbitals :
               Assign(39, {"molecule"},
                      [ns EXCEPT !.molecule = [atoms |-> Symbols(ns.driver.atom), num_alpha |-> a,
                                               num_beta |-> b, num_orbitals |-> o]])
         \/ Raise("LibraryError"))

num_particles_assign ==
    /\ At(40)
    /\ Stmt(40, {"molecule"},
            Assign(40, {"num_particles"},
                   [ns EXCEPT !.num_particles = ns.molecule.num_alpha + ns.molecule.num_beta]))

num_spin_orbitals_assign ==
    /\ At(41)
    /\ Stmt(41, {"molecule"},
            Assign(41, {"num_spin_orbitals"},
                   [ns EXCEPT !.num_spin_orbitals = ns.molecule.num_orbitals * 2]))

\* FermionicOperator(h1=molecule.one_body_integrals, h2=...): the integrals
\* are over the spin orbitals, two per orbital; the operator is kept as its
\* number of modes.
ferOp_FermionicOperator ==
    /\ At(42)
    /\ Stmt(42, {"FermionicOperator", "molecule"},
         \/ Assign(42, {"ferOp"}, [ns EXCEPT !.ferOp = 2 * ns.molecule.num_orbitals])
         \/ Raise("LibraryError"))

map_type_assign ==
    /\ At(43)
    /\ Stmt(43, {}, Assign(43, {"map_type"}, [ns EXCEPT !.map_type = "PARITY"]))

\* ferOp.mapping(map_type): one qubit per mode.
mapping(modes, map_type) == [num_qubits |-> modes, mapping |-> map_type, reduced_with |-> {}]

\* qubitOp.two_qubit_reduced_operator(m): two qubits are tapered off.
two_qubit_reduced_operator(op, m) ==
    [op EXCEPT !.num_qubits = op.num_qubits - 2, !.reduced_with = {m}]

qubitOp_mapping ==
    /\ At(44)
    /\ Stmt(44, {"ferOp", "map_type"},
         \/ Assign(44, {"qubitOp"}, [ns EXCEPT !.qubitOp = mapping(ns.ferOp, ns.map_type)])
         \/ Raise("LibraryError"))

qubitOp_two_qubit_reduced ==
    /\ At(45)
    /\ Stmt(45, {"qubitOp", "num_particles"},
         \/ Assign(45, {"qubitOp"},
                   [ns EXCEPT !.qubitOp = two_qubit_reduced_operator(ns.qubitOp, ns.num_particles)])
         \/ Raise("LibraryError"))

\* Mutant of num_qubits_assign: the number of qubits is taken from the
\* operator before the mapping and the reduction.
num_qubits_before_reduction ==
    /\ At(46)
    /\ Stmt(46, {"qubitOp"},
            Assign(46, {"num_qubits"}, [ns EXCEPT !.num_qubits = ns.ferOp]))

num_qubits_assign ==
    /\ At(46)
    /\ Stmt(46, {"qubitOp"},
            Assign(46, {"num_qubits"}, [ns EXCEPT !.num_qubits = ns.qubitOp.num_qubits]))

import_SPSA ==
    /\ At(47)
    /\ Import(47, "qiskit_aqua", {"SPSA"})

optimizer_SPSA ==
    /\ At(48)
    /\ Stmt(48, {"SPSA"},
         \/ Assign(48, {"optimizer"}, [ns EXCEPT !.optimizer = "SPSA"])
         \/ Raise("LibraryError"))

import_HartreeFock ==
    /\ At(49)
    /\ Import(49, "qiskit_chemistry", {"HartreeFock"})

\* HartreeFock(num_qubits, num_orbitals, num_particles)
HartreeFock(num_qubits, num_orbitals, num_particles) ==
    [num_qubits |-> num_qubits, num_orbitals |-> num_orbitals, num_particles |-> num_particles]

init_state_HartreeFock ==
    /\ At(50)
    /\ Stmt(50, {"HartreeFock", "num_qubits", "num_spin_orbitals", "num_particles"},
         \/ Assign(50, {"init_state"},
                   [ns EXCEPT !.init_state =
                       HartreeFock(ns.num_qubits, ns.num_spin_orbitals, ns.num_particles)])
         \/ Raise("LibraryError"))

import_RYRZ ==
    /\ At(51)
    /\ Import(51, "qiskit_aqua", {"RYRZ"})

\* RYRZ(num_qubits, initial_state=init_state)
RYRZ(num_qubits, initial_state) ==
    [name |-> "RYRZ", num_qubits |-> num_qubits, initial_state |-> initial_state]

var_form_RYRZ ==
    /\ At(52)
    /\ Stmt(52, {"RYRZ", "num_qubits", "init_state"},
         \/ Assign(52, {"var_form"}, [ns EXCEPT !.var_form = RYRZ(ns.num_qubits, ns.init_state)])
         \/ Raise("LibraryError"))

import_VQE ==
    /\ At(53)
    /\ Import(53, "qiskit_aqua", {"VQE"})

\* VQE(qubitOp, var_form, optimizer)
VQE(operator, var_form, optimizer) ==
    [operator |-> operator, var_form |-> var_form, optimizer |-> optimizer]

algorithm_VQE ==
    /\ At(54)
    /\ Stmt(54, {"VQE", "qubitOp", "var_form", "optimizer"},
         \/ Assign(54, {"algorithm"},
                   [ns EXCEPT !.algorithm = VQE(ns.qubitOp, ns.var_form, ns.optimizer)])
         \/ Raise("LibraryError"))

(***************************************************************************)
(* Running VQE with noise.                                                 *)
(***************************************************************************)
import_QuantumInstance ==
    /\ At(55)
    /\ Import(55, "qiskit_aqua", {"QuantumInstance"})

\* Mutant of QuantumInstance: the noise model is not passed on.
QuantumInstance_no_noise(backend, noise_model) == [backend |-> backend, noise_model |-> {}]

\* QuantumInstance(backend=simulator, noise_model=noise_model)
QuantumInstance(backend, noise_model) == [backend |-> backend, noise_model |-> {noise_model}]

quantum_instance_QuantumInstance ==
    /\ At(56)
    /\ Stmt(56, {"QuantumInstance", "simulator", "noise_model"},
         \/ Assign(56, {"quantum_instance"},
                   [ns EXCEPT !.quantum_instance = QuantumInstance(ns.simulator, ns.noise_model)])
         \/ Raise("LibraryError"))

\* result = algorithm.run(quantum_instance)
algorithm_run ==
    /\ At(57)
    /\ Stmt(57, {"algorithm", "quantum_instance"},
         \/ /\ vqe_runs' = Append(vqe_runs, [algorithm |-> ns.algorithm,
                                             quantum_instance |-> ns.quantum_instance])
            /\ ns' = [ns EXCEPT !.result = "vqe_result"]
            /\ UNCHANGED <<installed, executed, displayed>>
            /\ Done(57, {"result"})
         \/ Raise("LibraryError"))

print_result ==
    /\ At(58)
    /\ Stmt(58, {"result"}, Assign(58, {}, ns))

(***************************************************************************)
(* The run.                                                                *)
(***************************************************************************)
Next ==
    \/ pip_install_qiskit \/ pip_install_qiskit_aqua \/ pip_install_qiskit_chemistry
    \/ pip_install_pyscf
    \/ import_Aer_IBMQ_execute \/ import_noise \/ import_QuantumCircuit \/ import_job_monitor
    \/ IBMQ_load_accounts \/ print_available_backends \/ IBMQ_backends
    \/ device_get_backend \/ device_properties \/ device_coupling_map
    \/ import_noise_again \/ build_noise_model
    \/ qr_QuantumRegister \/ cr_ClassicalRegister \/ circuit_QuantumCircuit
    \/ circuit_h \/ circuit_cx_0_1 \/ circuit_cx_1_2 \/ circuit_barrier \/ circuit_measure
    \/ circuit_draw
    \/ simulator_get_backend \/ execute_noiseless
    \/ basis_gates_of_noise_model \/ execute_noise \/ counts_noise_get_counts
    \/ print_counts_noise
    \/ import_logging \/ import_set_aqua_logging \/ set_aqua_logging
    \/ import_OrderedDict \/ import_FermionicOperator \/ import_PySCFDriver
    \/ driver_PySCFDriver \/ molecule_driver_run
    \/ num_particles_assign \/ num_spin_orbitals_assign
    \/ ferOp_FermionicOperator \/ map_type_assign \/ qubitOp_mapping
    \/ qubitOp_two_qubit_reduced \/ num_qubits_assign
    \/ import_SPSA \/ optimizer_SPSA \/ import_HartreeFock \/ init_state_HartreeFock
    \/ import_RYRZ \/ var_form_RYRZ \/ import_VQE \/ algorithm_VQE
    \/ import_QuantumInstance \/ quantum_instance_QuantumInstance
    \/ algorithm_run \/ print_result

Spec == Init /\ [][Next]_vars

(***************************************************************************)
(* Properties.                                                             *)
(***************************************************************************)
Range(seq) == {seq[i] : i \in DOMAIN seq}

\* The toy circuit as the notebook draws it.
ToyCircuit ==
    [qregs |-> 3, cregs |-> 3,
     data |-> <<Instr("h", <<0>>, <<>>), Instr("cx", <<0, 1>>, <<>>),
                Instr("cx", <<1, 2>>, <<>>), Instr("barrier", <<0, 1, 2>>, <<>>),
                Instr("measure", <<0>>, <<0>>), Instr("measure", <<1>>, <<1>>),
                Instr("measure", <<2>>, <<2>>)>>]

\* C1: the run is one linear sequence: the statements run in notebook
\* order, none twice and none skipped, so the five sections follow each
\* other (install/import, calibration data, noise model, circuit run without
\* and then with noise, VQE), each finished before the next starts.
C1_LinearSequence ==
    /\ \A i \in DOMAIN trace : trace[i] = i
    /\ \A i \in DOMAIN trace : i > 1 => Phase(trace[i - 1]) <= Phase(trace[i])
    /\ status = "done" => Len(trace) = LastStmt
    /\ "noise_model" \in bound => {"properties", "coupling_map"} \subseteq bound
    /\ executed # <<>> => "noise_model" \in bound /\ executed[1].noise_model = {}
    /\ Len(executed) <= 2
    /\ Len(executed) = 2 => executed[2].noise_model # {}
    /\ "qubitOp" \in bound => Len(executed) = 2
    /\ Len(vqe_runs) <= 1
    /\ vqe_runs # <<>> => "qubitOp" \in bound

C1_Witness == status = "done" /\ Len(trace) = LastStmt /\ Len(vqe_runs) = 1

\* C2: the toy circuit is run twice on qasm_simulator: the first request
\* carries only the circuit and the backend, the second the same circuit
\* and backend plus the noise model, the device's coupling map and the
\* noise model's basis gates; the circuit is the same in both.
C2_TwoRuns ==
    /\ Len(executed) >= 1 =>
          /\ executed[1].circuit = ns.circuit
          /\ executed[1].backend = "qasm_simulator"
          /\ executed[1].noise_model = {}
          /\ executed[1].coupling_map = {}
          /\ executed[1].basis_gates = {}
    /\ Len(executed) >= 2 =>
          /\ executed[2].circuit = executed[1].circuit
          /\ executed[2].backend = executed[1].backend
          /\ executed[2].noise_model = {ns.noise_model}
          /\ executed[2].coupling_map = {ns.coupling_map}
          /\ ns.coupling_map.backend_name = "ibmq_poughkeepsie"
          /\ executed[2].basis_gates = {ns.noise_model.basis_gates}

C2_Witness == Len(executed) = 2 /\ executed[2].circuit = ToyCircuit

\* C3: VQE only ever runs with a QuantumInstance that holds qasm_simulator
\* and the noise model built from the device's calibration data, the one
\* the noisy circuit run used.
C3_VQEWithNoise ==
    \A i \in DOMAIN vqe_runs :
        /\ vqe_runs[i].quantum_instance.backend = "qasm_simulator"
        /\ vqe_runs[i].quantum_instance.noise_model = {ns.noise_model}
        /\ ns.noise_model.properties = ns.properties
        /\ ns.properties.calibration \in 1 .. MaxCalibration
        /\ executed[2].noise_model = vqe_runs[i].quantum_instance.noise_model

C3_Witness == Len(vqe_runs) = 1 /\ ns.result = "vqe_result"

\* C4: a failing library call is an unhandled exception at that statement:
\* the run stops there, the statement's effects are not applied, the call
\* is not made again and no later statement runs.
C4_Unhandled ==
    [][/\ status = "raised" => UNCHANGED vars
       /\ (status = "running" /\ status' = "raised") =>
             /\ pc' = pc
             /\ trace' = Append(trace, pc)
             /\ error' \in {"LibraryError", "ModuleNotFoundError"}
             /\ UNCHANGED <<bound, ns, executed, displayed, vqe_runs>>
       /\ pc \notin Range(trace)]_vars

C4_Witness ==
    /\ status = "raised"
    /\ error = "LibraryError"
    /\ pc = 57
    /\ vqe_runs = <<>>
    /\ "result" \notin bound

\* C5: the molecule given to the chemistry driver, and so to VQE, is LiH.
C5_LiH ==
    "driver" \in bound =>
        /\ Len(ns.driver.atom) = 2
        /\ Range(Symbols(ns.driver.atom)) = {"Li", "H"}

\* C6: a noise model is only ever paired with qasm_simulator, in the
\* execute requests and in the QuantumInstance.
C6_NoiseOnlyOnQasm ==
    /\ \A i \in DOMAIN executed :
          executed[i].noise_model # {} => executed[i].backend = "qasm_simulator"
    /\ "quantum_instance" \in bound =>
          (ns.quantum_instance.noise_model # {} => ns.quantum_instance.backend = "qasm_simulator")
    /\ \A i \in DOMAIN vqe_runs :
          vqe_runs[i].quantum_instance.noise_model # {}
              => vqe_runs[i].quantum_instance.backend = "qasm_simulator"

C6_Witness ==
    /\ Len(executed) = 2
    /\ executed[2].noise_model # {}
    /\ "quantum_instance" \in bound
    /\ ns.quantum_instance.noise_model # {}

\* C7: every shot of the noiseless run of the toy circuit measures the
\* three bits equal: its counts have no key but '000' and '111'.
C7_NoiselessGHZ ==
    executed # <<>> =>
        /\ executed[1].circuit = ToyCircuit
        /\ DOMAIN displayed \subseteq {"000", "111"}
        /\ DOMAIN displayed # {}

\* Both outcomes appear in one noiseless run.
C7_Witness == executed # <<>> /\ DOMAIN displayed = {"000", "111"}

\* C8: the counts of the noiseless and of the noisy run map 3-bit strings
\* to positive integers that sum to the run's number of shots.
BitStrings3 == {BitString(v, 3) : v \in 0 .. 7}

IsCounts(counts, shots) ==
    /\ DOMAIN counts \subseteq BitStrings3
    /\ \A k \in DOMAIN counts : counts[k] >= 1
    /\ Total(counts) = shots

C8_CountsSumToShots ==
    /\ Len(executed) >= 1 => IsCounts(displayed, executed[1].shots)
    /\ "counts_noise" \in bound =>
          /\ IsCounts(ns.counts_noise, executed[2].shots)
          /\ executed[2].shots = executed[1].shots
          /\ Total(ns.counts_noise) = Total(displayed)

\* A noisy run where an outcome other than '000' and '111' was counted, and
\* one outcome more than once.
C8_Witness ==
    /\ "counts_noise" \in bound
    /\ \E k \in DOMAIN ns.counts_noise : k \notin {"000", "111"} /\ ns.counts_noise[k] >= 2

\* C9: in notebook order every name a statement reads was bound before:
\* no statement raises a NameError, and the names the later cells read are
\* bound when they run.
C9_NamesBound ==
    /\ error # "NameError"
    /\ pc > 16 => {"properties", "coupling_map", "noise_model"} \subseteq bound
    /\ pc > 27 => {"simulator", "circuit"} \subseteq bound
    /\ pc > 29 => "basis_gates" \in bound
    /\ pc > 54 => {"qubitOp", "var_form", "optimizer", "algorithm"} \subseteq bound
    /\ pc > 57 => "quantum_instance" \in bound

C9_Witness == status = "done" /\ error = "" /\ {"algorithm", "counts_noise"} \subseteq bound

\* C10: num_qubits is read from the qubit operator after the parity mapping
\* and the two-qubit reduction; the HartreeFock state, the RYRZ form and the
\* operator given to VQE have that number of qubits; num_particles is
\* num_alpha + num_beta, num_spin_orbitals is twice num_orbitals, and the
\* reduction and the initial state use the same num_particles.
C10_QubitsAgree ==
    /\ "num_particles" \in bound =>
          ns.num_particles = ns.molecule.num_alpha + ns.molecule.num_beta
    /\ "num_spin_orbitals" \in bound => ns.num_spin_orbitals = 2 * ns.molecule.num_orbitals
    /\ "num_qubits" \in bound =>
          /\ ns.qubitOp.mapping = "PARITY"
          /\ ns.qubitOp.reduced_with = {ns.num_particles}
          /\ ns.num_qubits = ns.qubitOp.num_qubits
    /\ "init_state" \in bound =>
          /\ ns.init_state.num_qubits = ns.qubitOp.num_qubits
          /\ ns.qubitOp.reduced_with = {ns.init_state.num_particles}
    /\ "var_form" \in bound =>
          /\ ns.var_form.num_qubits = ns.qubitOp.num_qubits
          /\ ns.var_form.initial_state = ns.init_state
    /\ "algorithm" \in bound =>
          /\ ns.algorithm.operator = ns.qubitOp
          /\ ns.algorithm.var_form.num_qubits = ns.algorithm.operator.num_qubits
          /\ ns.algorithm.var_form.initial_state.num_qubits = ns.algorithm.operator.num_qubits

C10_Witness ==
    /\ "algorithm" \in bound
    /\ ns.molecule.num_alpha # ns.molecule.num_beta
    /\ ns.algorithm.operator.num_qubits = 2

====
